---- MODULE Spec2Model ----
(***************************************************************************)
(* Model of esperoj/storage/s3.py: the S3Storage adapter over a MinIO      *)
(* client, and the StreamResponse iterator that get_file returns.          *)
(*                                                                         *)
(* The remote object store is the state the client calls act on.  Every    *)
(* adapter method is an operator computed as its code computes it, and one *)
(* action applies it.  What the client library may answer (a coded         *)
(* S3Error, an exception of another type, the shape of a response stream)  *)
(* is an input of the action.  A call leaves its outcome in `call` until    *)
(* the caller takes it (Return): the adapter is synchronous, one call at a *)
(* time.  download_file writes a local file only and is left out.          *)
(*                                                                         *)
(* Spec is the whole program.  SpecStore leaves out the consumption of a   *)
(* stream and SpecStream the methods that do not feed one; a stream holds  *)
(* its own response, so neither part reads what the other writes.          *)
(***************************************************************************)
EXTENDS Integers, Sequences, FiniteSets, TLC

\* Largest local file, in bytes.
MaxSize == 2
\* Longest list of paths handed to delete_files.
MaxPaths == 2

-----------------------------------------------------------------------------
(* Object keys and prefixes are sequences of characters.                   *)

KeySeq == << <<"a", "/", "1">>, <<"a", "/", "2">>, <<"b", "/", "1">> >>

Keys == {KeySeq[i] : i \in 1..Len(KeySeq)}

Prefixes == {<<>>, <<"a">>, <<"a", "/">>, <<"a", "/", "1">>, <<"b", "/">>, <<"z", "/">>}

Buckets == {"esperoj", "archive"}

\* A local file is named by its size; its bytes are 1, 2, ..., n.
LocalPaths == 0..MaxSize

ReadLocal(src) == [i \in 1..src |-> i]

RECURSIVE Concat(_)
Concat(chunks) ==
    IF chunks = <<>> THEN <<>> ELSE Head(chunks) \o Concat(Tail(chunks))

-----------------------------------------------------------------------------
(* Configuration                                                           *)

DEFAULT_CONFIG ==
    [name |-> "S3 Storage",
     bucket_name |-> "esperoj",
     endpoint |-> "localhost:9000",
     access_key |-> "minioadmin",
     secret_key |-> "minioadmin",
     secure |-> TRUE,
     region |-> "eu-central-1",
     multipart_chunksize |-> 67108864]

\* dict | dict: the right operand wins.
Merge(d, c) ==
    [k \in DOMAIN d \cup DOMAIN c |-> IF k \in DOMAIN c THEN c[k] ELSE d[k]]

UserConfigs ==
    {[k \in {} |-> ""],
     [bucket_name |-> "archive", multipart_chunksize |-> 1]}

-----------------------------------------------------------------------------
(* The client (minio.Minio), as the adapter uses it.  A store maps each    *)
(* bucket to a function from the keys present in it to their content.      *)

NoError == [raised |-> "none", code |-> "none"]

S3Error(code) == [raised |-> "S3Error", code |-> code]

OtherError == [raised |-> "OtherError", code |-> "none"]

NotFound == [raised |-> "FileNotFoundError", code |-> "none"]

\* What a client call may do besides answering from the store: nothing, fail
\* with an S3Error whose code is not NoSuchKey, or fail with an exception that
\* is not an S3Error.
Faults == {"none", "S3Error", "OtherError"}

FaultError(fault) ==
    IF fault = "S3Error" THEN S3Error("AccessDenied") ELSE OtherError

Exists(st, bucket, key) == key \in DOMAIN st[bucket]

\* client.stat_object(bucket, key)
stat_object(st, bucket, key, fault) ==
    IF fault # "none" THEN [err |-> FaultError(fault), size |-> 0]
    ELSE IF ~Exists(st, bucket, key) THEN [err |-> S3Error("NoSuchKey"), size |-> 0]
    ELSE [err |-> NoError, size |-> Len(st[bucket][key])]

Put(st, bucket, key, data) ==
    [st EXCEPT ![bucket] =
        [k \in DOMAIN st[bucket] \cup {key} |-> IF k = key THEN data ELSE st[bucket][k]]]

Remove(st, bucket, key) ==
    [st EXCEPT ![bucket] = [k \in DOMAIN st[bucket] \ {key} |-> st[bucket][k]]]

\* The parts of a multipart upload: consecutive pieces of part_size bytes.
RECURSIVE Parts(_, _)
Parts(data, part_size) ==
    IF Len(data) <= part_size THEN <<data>>
    ELSE <<SubSeq(data, 1, part_size)>>
         \o Parts(SubSeq(data, part_size + 1, Len(data)), part_size)

\* client.fput_object(bucket, key, file, part_size): the object is the parts in
\* order; a failed upload stores nothing.
fput_object(st, bucket, key, data, part_size, fault) ==
    IF fault # "none" THEN [err |-> FaultError(fault), store |-> st]
    ELSE [err |-> NoError, store |-> Put(st, bucket, key, Concat(Parts(data, part_size)))]

\* client.remove_object(bucket, key)
remove_object(st, bucket, key, fault) ==
    IF fault # "none" THEN [err |-> FaultError(fault), store |-> st]
    ELSE [err |-> NoError, store |-> Remove(st, bucket, key)]

IsPrefix(p, s) == Len(p) <= Len(s) /\ SubSeq(s, 1, Len(p)) = p

\* client.list_objects(bucket, prefix, recursive=True): the object names under
\* the prefix, in key order.
list_objects(st, bucket, prefix) ==
    SelectSeq(KeySeq, LAMBDA k : Exists(st, bucket, k) /\ IsPrefix(prefix, k))

\* client.presigned_get_object(bucket, key, expires)
presigned_get_object(cfg, key) == <<cfg["endpoint"], cfg["bucket_name"], key>>

-----------------------------------------------------------------------------
(* StreamResponse                                                          *)

NoRet == "none"

\* The response of get_object before a chunk is read: the body still to come;
\* `done` once its stream() generator has finished.
Response(body) ==
    [closed |-> 0, released |-> 0, rest |-> body, done |-> FALSE]

NoStream == [response |-> Response(<<>>)]

\* next(response.stream()): while bytes remain the generator yields the next n
\* of them, n being what the connection delivers.  At the end of the body it
\* finishes, which next() reports by raising StopIteration, or, when `sentinel`
\* holds, yields one empty chunk first.
stream_next(response, n, sentinel) ==
    IF response.rest # <<>>
    THEN LET m == IF n < Len(response.rest) THEN n ELSE Len(response.rest)
         IN  [response |-> [response EXCEPT !.rest = SubSeq(@, m + 1, Len(@))],
              raised |-> "none", chunk |-> SubSeq(response.rest, 1, m)]
    ELSE IF ~response.done /\ sentinel
    THEN [response |-> [response EXCEPT !.done = TRUE], raised |-> "none", chunk |-> <<>>]
    ELSE [response |-> [response EXCEPT !.done = TRUE],
          raised |-> "StopIteration", chunk |-> <<>>]

\* StreamResponse.__init__(response)
StreamResponse_init(response) == [response |-> response]

\* __next__ that looks ahead: it ends the stream as soon as nothing is left
\* after the chunk just read, and so never hands that chunk over.
StreamResponse_next_lookahead(self, n, sentinel) ==
    LET r == stream_next(self.response, n, sentinel)
    IN  IF r.raised # "none"
        THEN [self |-> [self EXCEPT !.response = r.response],
              raised |-> r.raised, chunk |-> <<>>]
        ELSE IF r.chunk = <<>> \/ r.response.rest = <<>>
        THEN [self |-> [self EXCEPT !.response =
                            [r.response EXCEPT !.closed = @ + 1, !.released = @ + 1]],
              raised |-> "StopIteration", chunk |-> <<>>]
        ELSE [self |-> [self EXCEPT !.response = r.response],
              raised |-> "none", chunk |-> r.chunk]

\* StreamResponse.__next__(): `raised` is "StopIteration" or "none".
StreamResponse_next(self, n, sentinel) ==
    LET r == stream_next(self.response, n, sentinel)
    IN  IF r.raised # "none"
        THEN \* StopIteration out of next(self.stream) leaves __next__ at once
             [self |-> [self EXCEPT !.response = r.response],
              raised |-> r.raised, chunk |-> <<>>]
        ELSE IF r.chunk = <<>>
        THEN [self |-> [self EXCEPT !.response =
                            [r.response EXCEPT !.closed = @ + 1, !.released = @ + 1]],
              raised |-> "StopIteration", chunk |-> <<>>]
        ELSE [self |-> [self EXCEPT !.response = r.response],
              raised |-> "none", chunk |-> r.chunk]

-----------------------------------------------------------------------------
(* S3Storage: each method as a function of the configuration, the store    *)
(* and what the client answers.  `trace` lists the client calls the method *)
(* issued, in order.                                                       *)

\* S3Storage.__init__(config)
S3Storage_init(config) == Merge(DEFAULT_CONFIG, config)

ClientCall(fn, key, err) == [fn |-> fn, key |-> key, err |-> err]

\* file_exists that answers False to every S3Error, whatever its code.
file_exists_any_code(cfg, st, path, fault) ==
    LET r == stat_object(st, cfg["bucket_name"], path, fault)
        trace == <<ClientCall("stat_object", path, r.err)>>
    IN  IF r.err.raised = "none" THEN [err |-> NoError, ret |-> TRUE, trace |-> trace]
        ELSE IF r.err.raised = "S3Error"
             THEN [err |-> NoError, ret |-> FALSE, trace |-> trace]
             ELSE [err |-> r.err, ret |-> NoRet, trace |-> trace]

\* S3Storage.file_exists(path)
file_exists(cfg, st, path, fault) ==
    LET r == stat_object(st, cfg["bucket_name"], path, fault)
        trace == <<ClientCall("stat_object", path, r.err)>>
    IN  IF r.err.raised = "none" THEN [err |-> NoError, ret |-> TRUE, trace |-> trace]
        ELSE IF r.err.raised = "S3Error" /\ r.err.code = "NoSuchKey"
             THEN [err |-> NoError, ret |-> FALSE, trace |-> trace]
             ELSE [err |-> r.err, ret |-> NoRet, trace |-> trace]

\* get_link that signs without looking at the answer of file_exists.
get_link_unchecked(cfg, st, path, fault) ==
    LET e == file_exists(cfg, st, path, fault)
    IN  IF e.err.raised # "none" THEN e
        ELSE [err |-> NoError,
              ret |-> presigned_get_object(cfg, path),
              trace |-> Append(e.trace, ClientCall("presigned_get_object", path, NoError))]

\* S3Storage.get_link(path)
get_link(cfg, st, path, fault) ==
    LET e == file_exists(cfg, st, path, fault)
    IN  IF e.err.raised # "none" THEN e
        ELSE IF ~e.ret THEN [err |-> NotFound, ret |-> NoRet, trace |-> e.trace]
        ELSE [err |-> NoError,
              ret |-> presigned_get_object(cfg, path),
              trace |-> Append(e.trace, ClientCall("presigned_get_object", path, NoError))]

\* list_files that returns the listing as it is, empty or not.
list_files_unchecked(cfg, st, path) ==
    [err |-> NoError, ret |-> list_objects(st, cfg["bucket_name"], path),
     trace |-> <<ClientCall("list_objects", path, NoError)>>]

\* S3Storage.list_files(path)
list_files(cfg, st, path) ==
    LET files == list_objects(st, cfg["bucket_name"], path)
        trace == <<ClientCall("list_objects", path, NoError)>>
    IN  IF files = <<>> THEN [err |-> NotFound, ret |-> NoRet, trace |-> trace]
        ELSE [err |-> NoError, ret |-> files, trace |-> trace]

\* S3Storage.size(src)
size(cfg, st, src, fault) ==
    LET r == stat_object(st, cfg["bucket_name"], src, fault)
        trace == <<ClientCall("stat_object", src, r.err)>>
    IN  IF r.err.raised = "none"
        THEN IF r.size # 0 THEN [err |-> NoError, ret |-> r.size, trace |-> trace]
             ELSE [err |-> NotFound, ret |-> NoRet, trace |-> trace]
        ELSE [err |-> r.err, ret |-> NoRet, trace |-> trace]

\* S3Storage.upload_file(src, dst)
upload_file(cfg, st, src, dst, fault) ==
    LET r == fput_object(st, cfg["bucket_name"], dst, ReadLocal(src),
                         cfg["multipart_chunksize"], fault)
    IN  [err |-> r.err, ret |-> NoRet, store |-> r.store,
         trace |-> <<ClientCall("fput_object", dst, r.err)>>]

\* The loop of delete_files from path number i on.
RECURSIVE delete_loop(_, _, _, _, _, _, _)
delete_loop(cfg, st, paths, faults, i, errors, trace) ==
    IF i > Len(paths)
    THEN [err |-> NoError, ret |-> [errors |-> errors], store |-> st, trace |-> trace]
    ELSE LET r == remove_object(st, cfg["bucket_name"], paths[i], faults[i])
             t == Append(trace, ClientCall("remove_object", paths[i], r.err))
         IN  IF r.err.raised = "none"
             THEN delete_loop(cfg, r.store, paths, faults, i + 1, errors, t)
             ELSE IF r.err.raised = "S3Error"
             THEN delete_loop(cfg, r.store, paths, faults, i + 1,
                              Append(errors, [path |-> paths[i], message |-> r.err.code]), t)
             ELSE [err |-> r.err, ret |-> NoRet, store |-> r.store, trace |-> t]

\* delete_files that removes, with each path, everything under the path's
\* first component.
delete_files_recursive(cfg, st, paths, faults) ==
    LET r == delete_loop(cfg, st, paths, faults, 1, <<>>, <<>>)
        b == cfg["bucket_name"]
        gone == {k \in DOMAIN r.store[b] :
                    \E i \in DOMAIN paths : faults[i] = "none" /\ k[1] = paths[i][1]}
    IN  [r EXCEPT !.store =
            [r.store EXCEPT ![b] = [k \in DOMAIN r.store[b] \ gone |-> r.store[b][k]]]]

\* S3Storage.delete_files(paths)
delete_files(cfg, st, paths, faults) ==
    delete_loop(cfg, st, paths, faults, 1, <<>>, <<>>)

\* client.get_object(bucket, key)
get_object(st, bucket, key) ==
    IF ~Exists(st, bucket, key)
    THEN [err |-> S3Error("NoSuchKey"), response |-> Response(<<>>)]
    ELSE [err |-> NoError, response |-> Response(st[bucket][key])]

\* S3Storage.get_file(src): the response is wrapped without a chunk being read.
get_file(cfg, st, src) ==
    LET r == get_object(st, cfg["bucket_name"], src)
        trace == <<ClientCall("get_object", src, r.err)>>
    IN  IF r.err.raised # "none" THEN [err |-> r.err, ret |-> NoStream, trace |-> trace]
        ELSE [err |-> NoError, ret |-> StreamResponse_init(r.response), trace |-> trace]

-----------------------------------------------------------------------------
(* State                                                                   *)

VARIABLES
    config,    \* S3Storage.config
    store,     \* the remote objects, per bucket
    uploaded,  \* history: the local file each object of the bucket was last uploaded from
    session,   \* the StreamResponse of the latest get_file and what its consumer did
    call       \* the method call that has just returned or raised; Idle between calls

vars == <<config, store, uploaded, session, call>>

PathLists == UNION {[1..n -> Keys] : n \in 0..MaxPaths}

NoSession == [state |-> "none", self |-> NoStream, out |-> <<>>, origin |-> 0]

Call(op, arg, fault, r) ==
    [op |-> op, arg |-> arg, fault |-> fault, err |-> r.err, ret |-> r.ret, trace |-> r.trace]

Idle == Call("idle", NoRet, "none", [err |-> NoError, ret |-> NoRet, trace |-> <<>>])

Init ==
    /\ config \in {S3Storage_init(c) : c \in UserConfigs}
    /\ store = [b \in Buckets |-> <<>>]
    /\ uploaded = <<>>
    /\ session = NoSession
    /\ call = Idle

FileExists ==
    /\ call.op = "idle"
    /\ \E path \in Keys, fault \in Faults :
        call' = Call("file_exists", path, fault, file_exists(config, store, path, fault))
    /\ UNCHANGED <<config, store, uploaded, session>>

GetLink ==
    /\ call.op = "idle"
    /\ \E path \in Keys, fault \in Faults :
        call' = Call("get_link", path, fault, get_link(config, store, path, fault))
    /\ UNCHANGED <<config, store, uploaded, session>>

ListFiles ==
    /\ call.op = "idle"
    /\ \E path \in Prefixes :
        call' = Call("list_files", path, "none", list_files(config, store, path))
    /\ UNCHANGED <<config, store, uploaded, session>>

Size ==
    /\ call.op = "idle"
    /\ \E src \in Keys, fault \in Faults :
        call' = Call("size", src, fault, size(config, store, src, fault))
    /\ UNCHANGED <<config, store, uploaded, session>>

UploadFile ==
    /\ call.op = "idle"
    /\ \E src \in LocalPaths, dst \in Keys, fault \in Faults :
        LET r == upload_file(config, store, src, dst, fault)
        IN  /\ store' = r.store
            /\ uploaded' = IF r.err.raised = "none"
                           THEN [k \in DOMAIN uploaded \cup {dst} |->
                                    IF k = dst THEN src ELSE uploaded[k]]
                           ELSE uploaded
            /\ call' = Call("upload_file", <<src, dst>>, fault, r)
    /\ UNCHANGED <<config, session>>

DeleteFiles ==
    /\ call.op = "idle"
    /\ \E paths \in PathLists :
        \E faults \in [1..Len(paths) -> Faults] :
            LET r == delete_files(config, store, paths, faults)
            IN  /\ store' = r.store
                /\ uploaded' = [k \in DOMAIN uploaded \cap DOMAIN r.store[config["bucket_name"]]
                                   |-> uploaded[k]]
                /\ call' = Call("delete_files", paths, faults, r)
    /\ UNCHANGED <<config, session>>

\* get_file(src); the stream of an earlier get_file is no longer followed.
GetFile ==
    /\ call.op = "idle"
    /\ \E src \in Keys :
        LET r == get_file(config, store, src)
        IN  /\ call' = Call("get_file", src, "none", r)
            /\ session' = IF r.err.raised = "none"
                          THEN [state |-> "open", self |-> r.ret, out |-> <<>>,
                                origin |-> uploaded[src]]
                          ELSE session
    /\ UNCHANGED <<config, store, uploaded>>

\* The consumer pulls one chunk: next(stream).
StreamNext ==
    /\ call.op = "idle"
    /\ session.state \in {"open", "ended"}
    /\ \E n \in 1..MaxSize, sentinel \in BOOLEAN :
        LET r == StreamResponse_next(session.self, n, sentinel)
        IN  /\ session' = [session EXCEPT
                             !.self = r.self,
                             !.out = IF r.raised = "none" THEN Append(@, r.chunk) ELSE @,
                             !.state = IF r.raised = "none" THEN @ ELSE "ended"]
            /\ call' = Call("__next__", NoRet, "none",
                            [err |-> [raised |-> r.raised, code |-> "none"],
                             ret |-> r.chunk, trace |-> <<>>])
    /\ UNCHANGED <<config, store, uploaded>>

\* The consumer stops pulling before the stream has ended and drops the stream;
\* no code of StreamResponse runs.
Abandon ==
    /\ call.op = "idle"
    /\ session.state = "open"
    /\ session' = [session EXCEPT !.state = "abandoned"]
    /\ call' = Call("abandon", NoRet, "none", [err |-> NoError, ret |-> NoRet, trace |-> <<>>])
    /\ UNCHANGED <<config, store, uploaded>>

\* The caller takes the outcome; the adapter is ready for the next call.
Return ==
    /\ call.op # "idle"
    /\ call' = Idle
    /\ UNCHANGED <<config, store, uploaded, session>>

Next ==
    \/ FileExists
    \/ GetLink
    \/ ListFiles
    \/ Size
    \/ UploadFile
    \/ DeleteFiles
    \/ GetFile
    \/ StreamNext
    \/ Abandon
    \/ Return

Spec == Init /\ [][Next]_vars

\* The methods that answer in one round trip, and get_file.
NextStore ==
    \/ FileExists
    \/ GetLink
    \/ ListFiles
    \/ Size
    \/ UploadFile
    \/ DeleteFiles
    \/ GetFile
    \/ Return

SpecStore == Init /\ [][NextStore]_vars

\* Uploads and the streams read back from them.
NextStream ==
    \/ UploadFile
    \/ GetFile
    \/ StreamNext
    \/ Abandon
    \/ Return

SpecStream == Init /\ [][NextStream]_vars

-----------------------------------------------------------------------------
(* Properties                                                              *)

Bucket == config["bucket_name"]

Stored == DOMAIN store[Bucket]

Range(f) == {f[i] : i \in DOMAIN f}

StartsWith(s, p) == Len(p) <= Len(s) /\ \A i \in 1..Len(p) : s[i] = p[i]

Signed == \E i \in DOMAIN call.trace : call.trace[i].fn = "presigned_get_object"

\* C1: a stream the consumer abandoned before it ended has had its response
\* closed and its connection released.
C1_AbandonedStreamReleased ==
    session.state = "abandoned" =>
        /\ session.self.response.closed >= 1
        /\ session.self.response.released >= 1

\* C2: a stream pulled until it signalled its end has had its connection
\* released exactly once, however the wrapped stream ended and however many
\* times __next__ was called afterwards.
C2_ExhaustedStreamReleasedOnce ==
    session.state = "ended" =>
        /\ session.self.response.closed = 1
        /\ session.self.response.released = 1

\* The paths whose removal failed, in input order.
RECURSIVE FailedPaths(_, _)
FailedPaths(paths, faults) ==
    IF paths = <<>> THEN <<>>
    ELSE (IF Head(faults) # "none" THEN <<Head(paths)>> ELSE <<>>)
         \o FailedPaths(Tail(paths), Tail(faults))

\* C3: delete_files never raises; it attempts the removal of every path and
\* returns one error entry for each path whose removal failed, in input order,
\* and none for a path whose removal succeeded.
C3_DeleteFilesNeverRaises ==
    call.op = "delete_files" =>
        /\ call.err.raised = "none"
        /\ [i \in DOMAIN call.trace |-> call.trace[i].key] = call.arg
        /\ [i \in DOMAIN call.ret.errors |-> call.ret.errors[i].path]
               = FailedPaths(call.arg, call.fault)

\* C4: size of a key under which no object is stored raises NotFoundError.
C4_SizeOfMissingKeyIsNotFound ==
    (call.op = "size" /\ call.fault = "none" /\ call.arg \notin Stored) =>
        call.err.raised = "FileNotFoundError"

\* C5: size of an object uploaded from an N-byte file returns N, for every N
\* from 0 on.
C5_SizeReturnsUploadedLength ==
    (call.op = "size" /\ call.fault = "none" /\ call.arg \in DOMAIN uploaded) =>
        /\ call.err.raised = "none"
        /\ call.ret = uploaded[call.arg]

\* C6: get_link on a key that does not exist raises NotFoundError without the
\* presign call being issued (a probe that itself fails propagates its error,
\* also without a presign call); the presign call is issued only right after
\* the existence probe of the same path reported the object present, and then
\* its URL is what get_link returns.
C6_GetLinkProbesBeforeSigning ==
    call.op = "get_link" =>
        /\ call.arg \notin Stored =>
              /\ ~Signed
              /\ call.err.raised # "none"
              /\ call.fault = "none" => call.err = NotFound
        /\ \A i \in DOMAIN call.trace :
              call.trace[i].fn = "presigned_get_object" =>
                  /\ i = 2
                  /\ call.trace[1] = ClientCall("stat_object", call.arg, NoError)
                  /\ call.trace[i].key = call.arg
                  /\ call.arg \in Stored
                  /\ call.err.raised = "none"
                  /\ call.ret = <<config["endpoint"], Bucket, call.arg>>
        /\ (call.arg \in Stored /\ call.fault = "none") => Signed

C6_Witness ==
    /\ call.op = "get_link"
    /\ call.arg \notin Stored
    /\ Stored # {}
    /\ call.err = NotFound
    /\ ~Signed

\* C7: file_exists returns true when the probe succeeds, false exactly when
\* the probe fails with NoSuchKey, and raises the probe's error in every other
\* case; so, when the client answers, it is false for a key never uploaded and
\* true once the key has been uploaded.
C7_FileExistsMapsProbe ==
    call.op = "file_exists" =>
        LET probe == call.trace[1].err
        IN  /\ Len(call.trace) = 1
            /\ call.trace[1].fn = "stat_object" /\ call.trace[1].key = call.arg
            /\ probe.raised = "none" => (call.err.raised = "none" /\ call.ret = TRUE)
            /\ (call.err.raised = "none" /\ call.ret = FALSE) <=> probe = S3Error("NoSuchKey")
            /\ (probe.raised # "none" /\ probe # S3Error("NoSuchKey")) => call.err = probe
            /\ call.fault = "none" =>
                  (call.err.raised = "none" /\ call.ret = (call.arg \in DOMAIN uploaded))

C7_Witness ==
    /\ call.op = "file_exists"
    /\ call.arg \in DOMAIN uploaded
    /\ call.trace[1].err = S3Error("AccessDenied")
    /\ call.err = S3Error("AccessDenied")

\* C8: list_files(prefix) returns exactly the stored keys that start with
\* prefix, each once, when there is one, and raises NotFoundError when there is
\* none.
C8_ListFilesExactlyPrefixed ==
    call.op = "list_files" =>
        LET matching == {k \in Stored : StartsWith(k, call.arg)}
        IN  IF matching = {}
            THEN call.err = NotFound
            ELSE /\ call.err.raised = "none"
                 /\ Range(call.ret) = matching
                 /\ Len(call.ret) = Cardinality(matching)

C8_Witness ==
    /\ call.op = "list_files"
    /\ call.arg = <<"a", "/">>
    /\ Stored = Keys
    /\ call.err.raised = "none"
    /\ Len(call.ret) = 2

\* C9: the chunks a stream has yielded so far, concatenated in order, followed
\* by what the response has still to deliver, are the content of the file the
\* object was uploaded from; and a stream that signalled its end has nothing
\* left to deliver, so its chunks concatenated are that content.
C9_StreamYieldsUploadedContent ==
    /\ session.state \in {"open", "ended"} =>
          Concat(session.out) \o session.self.response.rest = ReadLocal(session.origin)
    /\ session.state = "ended" =>
          /\ session.self.response.rest = <<>>
          /\ Concat(session.out) = ReadLocal(session.origin)
          /\ \A i \in DOMAIN session.out : session.out[i] # <<>>

C9_Witness ==
    /\ session.state = "ended"
    /\ Len(session.out) = 2
    /\ Concat(session.out) = ReadLocal(MaxSize)

\* C10: the configuration never changes; file_exists, size, list_files,
\* get_link and get_file leave every bucket as it was, whatever their outcome;
\* delete_files(paths) leaves every key not in paths as it was; and
\* upload_file(src, dst) leaves every key but dst as it was.
C10_Frame ==
    [][/\ config' = config
       /\ call'.op \in {"file_exists", "size", "list_files", "get_link", "get_file"}
             => store' = store
       /\ call'.op = "delete_files" =>
             \A b \in Buckets, k \in Keys :
                 (b # Bucket \/ k \notin Range(call'.arg)) =>
                     /\ (k \in DOMAIN store'[b]) = (k \in DOMAIN store[b])
                     /\ k \in DOMAIN store[b] => store'[b][k] = store[b][k]
       /\ call'.op = "upload_file" =>
             \A b \in Buckets, k \in Keys :
                 (b # Bucket \/ k # call'.arg[2]) =>
                     /\ (k \in DOMAIN store'[b]) = (k \in DOMAIN store[b])
                     /\ k \in DOMAIN store[b] => store'[b][k] = store[b][k]
      ]_vars

C10_Witness ==
    /\ call.op = "delete_files"
    /\ call.err.raised = "none"
    /\ call.arg # <<>>
    /\ call.ret.errors = <<>>
    /\ Stored # {}
    /\ Stored \cap Range(call.arg) = {}

====
